---- MODULE Spec2Model ----
(***************************************************************************)
(* Model of the two Souffle functors of                                    *)
(* src/macaron/code_analyzer/dataflow_analysis/datalog/functors/           *)
(* functors.cpp: basename (a stateful functor working on the symbol table) *)
(* and isUnderDir (a stateless functor working on two C strings).          *)
(*                                                                         *)
(* A string is a sequence of one-character strings.  A `const char *' is   *)
(* an address of the memory `mem'; two addresses may hold equal text.      *)
(***************************************************************************)
EXTENDS Integers, Sequences, FiniteSets, TLC

\* Longest string placed in memory / in the symbol table.
MaxLen == 4
\* Longest string of the call-history specification.
MaxHistLen == 2

\* Characters a path is written with: the separator and two others.
Chars == {"/", "a", "b"}
\* The two buffers the two `const char *' arguments of a call can point to.
Addr == {1, 2}

Str(n) == UNION {[1..k -> Chars] : k \in 0..n}

VARIABLES
    mem,      \* Addr -> string: the NUL-terminated buffers the host passes
    symtab,   \* souffle::SymbolTable: interned strings, symbol i at i + 1
    call,     \* the last functor call: operation, arguments, return value
    calls     \* the calls made so far (history specification only)

vars == <<mem, symtab, call, calls>>

NoCall == [op |-> "none", args |-> <<>>, strs |-> <<>>, ret |-> 0, fault |-> FALSE]

-----------------------------------------------------------------------------
\* std::string

size(str) == Len(str)

\* operator[]: defined for pos <= size() (the terminator at pos = size());
\* beyond that the access is undefined.  size() - 1 of an empty string wraps
\* to SIZE_MAX, which is written -1 here.
inRange(str, pos) == pos >= 0 /\ pos <= size(str)
at(str, pos) == IF pos = size(str) THEN "NUL" ELSE str[pos + 1]

\* substr(pos, n) throws std::out_of_range when pos > size().
substrThrows(str, pos) == pos > size(str)
substr(str, pos, n) ==
    LET last == IF pos + n < size(str) THEN pos + n ELSE size(str)
    IN  SubSeq(str, pos + 1, last)

-----------------------------------------------------------------------------
\* std::filesystem::path (POSIX, generic format)

\* Number of leading separators: the root-directory of the path.
RECURSIVE rootLen(_)
rootLen(str) ==
    IF str # <<>> /\ Head(str) = "/" THEN 1 + rootLen(Tail(str)) ELSE 0

relative_path(str) == SubSeq(str, rootLen(str) + 1, Len(str))

\* The filename elements of a relative path: split at runs of separators,
\* with an empty last element when the path ends with a separator.
RECURSIVE names(_, _, _)
names(rel, i, cur) ==
    IF i > Len(rel)
    THEN IF cur # <<>> THEN <<cur>>
         ELSE IF rel # <<>> /\ rel[Len(rel)] = "/" THEN << <<>> >> ELSE <<>>
    ELSE IF rel[i] = "/"
         THEN IF cur = <<>> THEN names(rel, i + 1, <<>>)
              ELSE <<cur>> \o names(rel, i + 1, <<>>)
         ELSE names(rel, i + 1, Append(cur, rel[i]))

\* The elements path::begin() .. path::end() iterates over.
elements(str) ==
    (IF rootLen(str) > 0 THEN << <<"/">> >> ELSE <<>>)
        \o names(relative_path(str), 1, <<>>)

\* A filename() that skips trailing separators, as POSIX basename(3) does.
filenameSkipTrailing(str) ==
    LET ns == names(relative_path(str), 1, <<>>)
        real == SelectSeq(ns, LAMBDA n : n # <<>>)
    IN  IF real = <<>> THEN <<>> ELSE real[Len(real)]

\* path::filename(): relative_path().empty() ? path() : *--end()
filename(str) ==
    IF relative_path(str) = <<>> THEN <<>>
    ELSE elements(str)[Len(elements(str))]

-----------------------------------------------------------------------------
\* souffle::SymbolTable

decode(tab, id) == tab[id + 1]

known(tab, str) == \E i \in 1..Len(tab) : tab[i] = str

\* encode interns: the index of the string, appended when it is new.
encodeTable(tab, str) == IF known(tab, str) THEN tab ELSE Append(tab, str)
encodeId(tab, str) ==
    IF known(tab, str)
    THEN (CHOOSE i \in 1..Len(tab) : tab[i] = str) - 1
    ELSE Len(tab)

-----------------------------------------------------------------------------
\* isUnderDir

Returned(v) == [ret |-> v, fault |-> FALSE]
\* An out-of-range access or an exception crossing the extern "C" boundary.
Faulted == [ret |-> 0, fault |-> TRUE]

\* What an int32_t can come back as after undefined behaviour (a sample).
AnyInt32 == {-1, 0, 1, 2}

\* Mutant: the separator is not appended in the no-trailing-separator branch,
\* but the compared length still counts it.
isUnderDirNoSep(dirpath, filepath) ==
    LET dirpathstr == mem[dirpath]
        filepathstr == mem[filepath]
    IN  IF size(dirpathstr) = 0 THEN Returned(0)
        ELSE IF dirpath = filepath THEN Returned(0)
        ELSE IF at(dirpathstr, size(dirpathstr) - 1) = "/"
        THEN IF substr(filepathstr, 0, size(dirpathstr)) = dirpathstr
             THEN Returned(1) ELSE Returned(0)
        ELSE IF substr(filepathstr, 0, size(dirpathstr) + 1) = dirpathstr
             THEN Returned(1) ELSE Returned(0)

\* Mutant: the no-trailing-separator branch tests the bare prefix.
isUnderDirBarePrefix(dirpath, filepath) ==
    LET dirpathstr == mem[dirpath]
        filepathstr == mem[filepath]
    IN  IF size(dirpathstr) = 0 THEN Returned(0)
        ELSE IF dirpath = filepath THEN Returned(0)
        ELSE IF substr(filepathstr, 0, size(dirpathstr)) = dirpathstr
        THEN Returned(1) ELSE Returned(0)

\* Mutant: the trailing-separator branch compares one character too many.
isUnderDirLongSlice(dirpath, filepath) ==
    LET dirpathstr == mem[dirpath]
        filepathstr == mem[filepath]
    IN  IF size(dirpathstr) = 0 THEN Returned(0)
        ELSE IF dirpath = filepath THEN Returned(0)
        ELSE IF substr(filepathstr, 0, size(dirpathstr) + 1) = (dirpathstr \o <<"/">>)
        THEN Returned(1) ELSE Returned(0)

\* Mutant: the emptiness test reads filepathstr instead of dirpathstr.
isUnderDirEmptyFileTest(dirpath, filepath) ==
    LET dirpathstr == mem[dirpath]
        filepathstr == mem[filepath]
    IN  IF size(filepathstr) = 0 THEN Returned(0)
        ELSE IF dirpath = filepath THEN Returned(0)
        ELSE IF ~inRange(dirpathstr, size(dirpathstr) - 1) THEN Faulted
        ELSE IF at(dirpathstr, size(dirpathstr) - 1) = "/"
        THEN IF substr(filepathstr, 0, size(dirpathstr)) = dirpathstr
             THEN Returned(1) ELSE Returned(0)
        ELSE IF substr(filepathstr, 0, size(dirpathstr) + 1) = (dirpathstr \o <<"/">>)
             THEN Returned(1) ELSE Returned(0)

\* Mutant: no empty-directory test; dirpathstr[size() - 1] is then read at
\* index SIZE_MAX for an empty directory.
isUnderDirNoEmptyTest(dirpath, filepath) ==
    LET dirpathstr == mem[dirpath]
        filepathstr == mem[filepath]
    IN  IF dirpath = filepath THEN Returned(0)
        ELSE IF ~inRange(dirpathstr, size(dirpathstr) - 1) THEN Faulted
        ELSE IF at(dirpathstr, size(dirpathstr) - 1) = "/"
        THEN IF substr(filepathstr, 0, size(dirpathstr)) = dirpathstr
             THEN Returned(1) ELSE Returned(0)
        ELSE IF substr(filepathstr, 0, size(dirpathstr) + 1) = (dirpathstr \o <<"/">>)
             THEN Returned(1) ELSE Returned(0)

\* int32_t isUnderDir(const char *dirpath, const char *filepath)
\* `dirpath = filepath' compares the two addresses, as the code does.
isUnderDir(dirpath, filepath) ==
    LET dirpathstr == mem[dirpath]
        filepathstr == mem[filepath]
    IN  IF size(dirpathstr) = 0 THEN Returned(0)
        ELSE IF dirpath = filepath THEN Returned(0)
        ELSE IF ~inRange(dirpathstr, size(dirpathstr) - 1) THEN Faulted
        ELSE IF substrThrows(filepathstr, 0) THEN Faulted
        ELSE IF at(dirpathstr, size(dirpathstr) - 1) = "/"
        THEN IF substr(filepathstr, 0, size(dirpathstr)) = dirpathstr
             THEN Returned(1) ELSE Returned(0)
        ELSE IF substr(filepathstr, 0, size(dirpathstr) + 1) = (dirpathstr \o <<"/">>)
             THEN Returned(1) ELSE Returned(0)

\* One call of isUnderDir by the host.
IsUnderDirCall(dirpath, filepath) ==
    LET r == isUnderDir(dirpath, filepath)
    IN  /\ \E v \in (IF r.fault THEN AnyInt32 ELSE {r.ret}) :
              call' = [op |-> "isUnderDir",
                       args |-> <<dirpath, filepath>>,
                       strs |-> <<mem[dirpath], mem[filepath]>>,
                       ret |-> v,
                       fault |-> r.fault]
        /\ UNCHANGED <<mem, symtab>>

-----------------------------------------------------------------------------
\* basename

\* souffle::RamDomain basename(symbolTable, recordTable, arg)
BasenameCall(arg) ==
    LET sarg == decode(symtab, arg)
        result == filename(sarg)
    IN  /\ symtab' = encodeTable(symtab, result)
        /\ call' = [op |-> "basename",
                    args |-> <<arg>>,
                    strs |-> <<sarg>>,
                    ret |-> encodeId(symtab, result),
                    fault |-> FALSE]
        /\ UNCHANGED mem

-----------------------------------------------------------------------------
\* Specifications

\* isUnderDir on every pair of buffers.
Init ==
    /\ mem \in [Addr -> Str(MaxLen)]
    /\ symtab = <<>>
    /\ call = NoCall
    /\ calls = {}

UnderDir ==
    /\ \E dirpath \in Addr, filepath \in Addr : IsUnderDirCall(dirpath, filepath)
    /\ UNCHANGED calls

Next == UnderDir

Spec == Init /\ [][Next]_vars

\* basename on a symbol table holding one symbol.
InitBasename ==
    /\ mem = [a \in Addr |-> <<>>]
    /\ symtab \in {<<s>> : s \in Str(MaxLen)}
    /\ call = NoCall
    /\ calls = {}

Base ==
    /\ \E arg \in 0..(Len(symtab) - 1) : BasenameCall(arg)
    /\ UNCHANGED calls

NextBasename == Base

SpecBasename == InitBasename /\ [][NextBasename]_vars

\* Both functors, every call recorded.
InitHist ==
    /\ mem \in [Addr -> Str(MaxHistLen)]
    /\ symtab \in {<<s>> : s \in Str(MaxHistLen)}
    /\ call = NoCall
    /\ calls = {}

HistUnderDir ==
    /\ \E dirpath \in Addr, filepath \in Addr : IsUnderDirCall(dirpath, filepath)
    /\ calls' = calls \cup {call'}

HistBase ==
    /\ \E arg \in 0..(Len(symtab) - 1) : BasenameCall(arg)
    /\ calls' = calls \cup {call'}

NextHist == HistUnderDir \/ HistBase

SpecHist == InitHist /\ [][NextHist]_vars

-----------------------------------------------------------------------------
\* Vocabulary of the properties

Dir(c) == c.strs[1]
File(c) == c.strs[2]
IsUnderDirOf(c) == c.op = "isUnderDir"

EndsWithSep(str) == str # <<>> /\ str[Len(str)] = "/"
HasSep(str) == \E i \in 1..Len(str) : str[i] = "/"

\* p is a literal prefix of str, character by character.
IsPrefix(p, str) ==
    /\ Len(p) <= Len(str)
    /\ \A i \in 1..Len(p) : str[i] = p[i]

\* The text after the last separator, the whole text when there is none.
AfterLastSep(str) ==
    LET seps == {i \in 1..Len(str) : str[i] = "/"}
    IN  IF seps = {} THEN str
        ELSE SubSeq(str, (CHOOSE i \in seps : \A j \in seps : j <= i) + 1, Len(str))

-----------------------------------------------------------------------------
\* C1: isUnderDir of a non-empty path and a path of the same text returns 0,
\* also when the two arguments are distinct buffers and when the text ends
\* with the separator.
C1_SameValueIsFalse ==
    (IsUnderDirOf(call) /\ Dir(call) # <<>> /\ Dir(call) = File(call))
        => call.ret = 0

\* C2: two calls of the same functor on equal argument texts give equal
\* results, whichever buffers hold the texts.
C2_Deterministic ==
    \A c1 \in calls, c2 \in calls :
        (c1.op = c2.op /\ c1.strs = c2.strs) =>
            IF c1.op = "basename"
            THEN decode(symtab, c1.ret) = decode(symtab, c2.ret)
            ELSE c1.ret = c2.ret

\* C3: for a non-empty dirPath without trailing separator and a filePath of
\* another text, the result is 1 exactly when filePath starts with
\* dirPath + "/"; a filePath no longer than dirPath gives 0.
C3_NoTrailingSep ==
    (/\ IsUnderDirOf(call)
     /\ Dir(call) # <<>>
     /\ ~EndsWithSep(Dir(call))
     /\ File(call) # Dir(call))
        => /\ call.ret = 1 <=> IsPrefix(Dir(call) \o <<"/">>, File(call))
           /\ Len(File(call)) <= Len(Dir(call)) => call.ret = 0

C3_Witness ==
    /\ IsUnderDirOf(call)
    /\ Dir(call) # <<>>
    /\ ~EndsWithSep(Dir(call))
    /\ File(call) # Dir(call)
    /\ Len(File(call)) > Len(Dir(call)) + 1
    /\ call.ret = 1

\* C4: for a dirPath with trailing separator and a filePath of another text,
\* the result is 1 exactly when filePath starts with dirPath.
C4_TrailingSep ==
    (/\ IsUnderDirOf(call)
     /\ EndsWithSep(Dir(call))
     /\ File(call) # Dir(call))
        => (call.ret = 1 <=> IsPrefix(Dir(call), File(call)))

C4_Witness ==
    /\ IsUnderDirOf(call)
    /\ EndsWithSep(Dir(call))
    /\ Len(Dir(call)) > 1
    /\ File(call) # Dir(call)
    /\ call.ret = 1

\* C5: isUnderDir of the empty dirPath returns 0 for every filePath, the
\* empty one included.
C5_EmptyDir ==
    (IsUnderDirOf(call) /\ Dir(call) = <<>>) => call.ret = 0

C5_Witness ==
    /\ IsUnderDirOf(call)
    /\ Dir(call) = <<>>
    /\ File(call) # <<>>
    /\ File(call)[1] = "/"
    /\ call.args[1] # call.args[2]
    /\ call.ret = 0

\* C6: basename returns the text after the last separator, or the whole text
\* when there is no separator; the result holds no separator, and it is empty
\* for the empty string and for a string ending with the separator.
C6_Basename ==
    call.op = "basename" =>
        LET sarg == call.strs[1]
            result == decode(symtab, call.ret)
        IN  /\ result = AfterLastSep(sarg)
            /\ ~HasSep(result)
            /\ sarg = <<>> => result = <<>>
            /\ EndsWithSep(sarg) => result = <<>>
            /\ ~HasSep(sarg) => result = sarg

C6_Witness ==
    /\ call.op = "basename"
    /\ EndsWithSep(call.strs[1])
    /\ call.strs[1][1] # "/"
    /\ decode(symtab, call.ret) = <<>>

\* C7: every call of isUnderDir completes without an out-of-range access or
\* an exception and returns 0 or 1.
C7_Total ==
    IsUnderDirOf(call) => (~call.fault /\ call.ret \in {0, 1})

C7_Witness ==
    /\ IsUnderDirOf(call)
    /\ Dir(call) # <<>>
    /\ Len(File(call)) < Len(Dir(call))
    /\ call.args[1] # call.args[2]
    /\ ~call.fault
    /\ call.ret = 0

\* C8: for a dirPath without trailing separator and a filePath that starts
\* with dirPath and goes on with a character other than the separator, the
\* result is 0.
C8_NoSiblingMatch ==
    (/\ IsUnderDirOf(call)
     /\ ~EndsWithSep(Dir(call))
     /\ IsPrefix(Dir(call), File(call))
     /\ Len(File(call)) > Len(Dir(call))
     /\ File(call)[Len(Dir(call)) + 1] # "/")
        => call.ret = 0

C8_Witness ==
    /\ IsUnderDirOf(call)
    /\ Dir(call) # <<>>
    /\ ~EndsWithSep(Dir(call))
    /\ IsPrefix(Dir(call), File(call))
    /\ Len(File(call)) > Len(Dir(call)) + 1
    /\ File(call)[Len(Dir(call)) + 1] # "/"
    /\ HasSep(File(call))
    /\ call.ret = 0

\* C9: isUnderDir(a, b) and isUnderDir(b, a) are never both 1, and whenever
\* isUnderDir(a, b) is 1, b is strictly longer than a.
C9_Asymmetric ==
    \A c1 \in calls, c2 \in calls :
        (/\ IsUnderDirOf(c1) /\ IsUnderDirOf(c2)
         /\ Dir(c2) = File(c1) /\ File(c2) = Dir(c1))
            => /\ ~(c1.ret = 1 /\ c2.ret = 1)
               /\ c1.ret = 1 => Len(File(c1)) > Len(Dir(c1))

\* C10: if isUnderDir(a, b) is 1 and isUnderDir(b, c) is 1 then
\* isUnderDir(a, c) is 1.
C10_Transitive ==
    \A c1 \in calls, c2 \in calls, c3 \in calls :
        (/\ IsUnderDirOf(c1) /\ IsUnderDirOf(c2) /\ IsUnderDirOf(c3)
         /\ Dir(c2) = File(c1)
         /\ Dir(c3) = Dir(c1) /\ File(c3) = File(c2)
         /\ c1.ret = 1 /\ c2.ret = 1)
            => c3.ret = 1

====
